---- MODULE Spec2Model ----
(***************************************************************************)
(* Model of pandasio/validation/errors.py: the Error taxonomy (one         *)
(* detection rule per variant, serialised by form_response) and the        *)
(* FieldValidationErrorManager accumulator.                                 *)
(*                                                                          *)
(* Python values are tagged records so that values of different Python     *)
(* types can sit in one column.  Text is a tuple of one-character strings, *)
(* so that str(), lstrip(), isnumeric(), isupper() and len() are computed. *)
(* A column holds Python objects (dtype object): no numeric coercion of     *)
(* its values is modelled.                                                  *)
(***************************************************************************)
EXTENDS Integers, Sequences, FiniteSets, TLC

VARIABLES
  errors,    \* manager -> the list object its `errors` field refers to
  heap,      \* list object -> its content, a sequence of reports
  instance,  \* the Error object constructed for the next log_error, or PyNone
  call,      \* the operation that ran last, with its arguments
  outcome    \* what that operation returned or raised

vars == <<errors, heap, instance, call, outcome>>

--------------------------------------------------------------------------
(* Bounds of the model.                                                   *)

MaxRows == 3        \* rows of a submitted column or table
MaxErrors == 2      \* reports logged in one validation pass, all managers

--------------------------------------------------------------------------
(* Python values.                                                         *)

IntV(n) == [t |-> "int", n |-> n, s |-> <<>>]
StrV(chars) == [t |-> "str", n |-> 0, s |-> chars]
BoolV(b) == [t |-> "bool", n |-> IF b THEN 1 ELSE 0, s |-> <<>>]
NullV == [t |-> "null", n |-> 0, s |-> <<>>]

\* s: Optional[pd.Series] / pd.DataFrame.  A row of a Series carries its index
\* label and its value; a row of a DataFrame its label and one cell per column.
NoneS == [kind |-> "none", rows |-> <<>>]
Series(rows) == [kind |-> "series", rows |-> rows]
DataFrame(rows) == [kind |-> "frame", rows |-> rows]

ColumnNames == <<"a", "b">>

\* The outcome of a call: a returned value or a raised exception.
Ok(v) == [raised |-> "", value |-> v]
Raise(exc) == [raised |-> exc]

--------------------------------------------------------------------------
(* Text primitives of Python used by the detection rules.                 *)

Digits == {"0", "1", "2", "3", "4", "5", "6", "7", "8", "9"}
UpperChars == {"A", "B", "C", "D", "E", "F", "G", "H", "I", "J", "K", "L", "M",
               "N", "O", "P", "Q", "R", "S", "T", "U", "V", "W", "X", "Y", "Z"}
LowerChars == {"a", "b", "c", "d", "e", "f", "g", "h", "i", "j", "k", "l", "m",
               "n", "o", "p", "q", "r", "s", "t", "u", "v", "w", "x", "y", "z"}

DigitChar(d) ==
  CASE d = 0 -> "0" [] d = 1 -> "1" [] d = 2 -> "2" [] d = 3 -> "3" [] d = 4 -> "4"
    [] d = 5 -> "5" [] d = 6 -> "6" [] d = 7 -> "7" [] d = 8 -> "8" [] d = 9 -> "9"

DigitVal(c) == CHOOSE d \in 0..9 : DigitChar(d) = c

RECURSIVE NatStr(_)
NatStr(n) == IF n < 10 THEN <<DigitChar(n)>> ELSE Append(NatStr(n \div 10), DigitChar(n % 10))

\* str(x) of the values a column can hold
str(x) ==
  CASE x.t = "str" -> x.s
    [] x.t = "int" -> IF x.n < 0 THEN <<"-">> \o NatStr(0 - x.n) ELSE NatStr(x.n)
    [] x.t = "bool" -> IF x.n = 1 THEN <<"T", "r", "u", "e">> ELSE <<"F", "a", "l", "s", "e">>
    [] x.t = "null" -> <<"N", "o", "n", "e">>

\* text.lstrip("-"): every leading "-" is removed
RECURSIVE lstrip_minus(_)
lstrip_minus(text) ==
  IF text # <<>> /\ Head(text) = "-" THEN lstrip_minus(Tail(text)) ELSE text

\* text.isnumeric(): at least one character, and every character numeric
isnumeric(text) == text # <<>> /\ \A k \in 1..Len(text) : text[k] \in Digits

\* text.isupper(): no lowercase character, and at least one uppercase one
isupper(text) ==
  /\ \A k \in 1..Len(text) : text[k] \notin LowerChars
  /\ \E k \in 1..Len(text) : text[k] \in UpperChars

\* s.loc[mask] / s[mask]: the rows whose mask entry is true, in row order
Loc(s, mask) ==
  LET keep == {k \in 1..Len(s.rows) : mask[k]}
      RECURSIVE Take(_)
      Take(k) == IF k > Len(s.rows) THEN <<>>
                 ELSE IF k \in keep THEN <<s.rows[k]>> \o Take(k + 1) ELSE Take(k + 1)
  IN [kind |-> s.kind, rows |-> Take(1)]

--------------------------------------------------------------------------
(* The Error classes.  A class is the class whose to_dict it runs and its  *)
(* CODE class attribute; CODE is None on the abstract base.                 *)

NoCode == [isNone |-> TRUE, chars |-> <<>>]
Code(chars) == [isNone |-> FALSE, chars |-> chars]

NON_NUMERIC_VALUE == <<"N","O","N","_","N","U","M","E","R","I","C","_","V","A","L","U","E">>
FIELD_REQUIRED == <<"F","I","E","L","D","_","R","E","Q","U","I","R","E","D">>
NULL_NOT_ALLOWED == <<"N","U","L","L","_","N","O","T","_","A","L","L","O","W","E","D">>
MIN_VALUE == <<"M","I","N","_","V","A","L","U","E">>
MAX_VALUE == <<"M","A","X","_","V","A","L","U","E">>
MIN_LENGTH_VALUE == <<"M","I","N","_","L","E","N","G","T","H","_","V","A","L","U","E">>
MAX_LENGTH_VALUE == <<"M","A","X","_","L","E","N","G","T","H","_","V","A","L","U","E">>
NON_UNIQUE_TOGETHER ==
  <<"N","O","N","_","U","N","I","Q","U","E","_","T","O","G","E","T","H","E","R">>
INCORRECT_DATE_FORMAT ==
  <<"I","N","C","O","R","R","E","C","T","_","D","A","T","E","_","F","O","R","M","A","T">>
INCORRECT_DATETIME_FORMAT ==
  <<"I","N","C","O","R","R","E","C","T","_","D","A","T","E","T","I","M","E","_",
    "F","O","R","M","A","T">>
IMAGE_FORMAT_NOT_SUPPORTED ==
  <<"I","M","A","G","E","_","F","O","R","M","A","T","_","N","O","T","_",
    "S","U","P","P","O","R","T","E","D">>
IDENTIFIER_NOT_FOUND ==
  <<"I","D","E","N","T","I","F","I","E","R","_","N","O","T","_","F","O","U","N","D">>
BLANK_NOT_ALLOWED == <<"B","L","A","N","K","_","N","O","T","_","A","L","L","O","W","E","D">>

Class(name, code) == [to_dict |-> name, CODE |-> code]

Error == Class("Error", NoCode)
NonNumericValueError == Class("NonNumericValueError", Code(NON_NUMERIC_VALUE))
FieldRequiredError == Class("FieldRequiredError", Code(FIELD_REQUIRED))
NullNotAllowedError == Class("NullNotAllowedError", Code(NULL_NOT_ALLOWED))
MinValueError == Class("MinValueError", Code(MIN_VALUE))
MaxValueError == Class("MaxValueError", Code(MAX_VALUE))
MinLengthError == Class("MinLengthError", Code(MIN_LENGTH_VALUE))
MaxLengthError == Class("MaxLengthError", Code(MAX_LENGTH_VALUE))
NonUniqueTogetherError == Class("NonUniqueTogetherError", Code(NON_UNIQUE_TOGETHER))
IncorrectDateFormatError == Class("IncorrectDateFormatError", Code(INCORRECT_DATE_FORMAT))
\* inherits to_dict from IncorrectDateFormatError and overrides CODE only
IncorrectDateTimeFormatError ==
  Class("IncorrectDateFormatError", Code(INCORRECT_DATETIME_FORMAT))
ImageFormatNotSupportedError ==
  Class("ImageFormatNotSupportedError", Code(IMAGE_FORMAT_NOT_SUPPORTED))
IdentifierNotFoundError == Class("IdentifierNotFoundError", Code(IDENTIFIER_NOT_FOUND))
BlankNotAllowed == Class("BlankNotAllowed", Code(BLANK_NOT_ALLOWED))

\* Error.__post_init__ without the second assertion
post_init_no_upper(cls) == IF cls.CODE.isNone THEN "AssertionError" ELSE ""

\* Error.__post_init__: the exception it raises, "" when construction succeeds
post_init(cls) ==
  IF cls.CODE.isNone THEN "AssertionError"
  ELSE IF ~isupper(cls.CODE.chars) THEN "AssertionError"
  ELSE ""

\* cls(**fields): the dataclass __init__ stores the fields, then __post_init__
new(cls, fields) ==
  IF post_init(cls) # "" THEN Raise(post_init(cls))
  ELSE Ok([cls |-> cls] @@ fields)

\* Error.form_response: kwargs are merged after "reason" and "indexes"
form_response(self, s, kwargs) ==
  kwargs @@
  [reason |-> self.cls.CODE.chars,
   indexes |-> IF s.kind # "none" THEN [k \in 1..Len(s.rows) |-> s.rows[k].idx] ELSE <<>>]

NoKwargs == <<>>

--------------------------------------------------------------------------
(* The detection rules: to_dict of every variant.  Each returns Ok(report) *)
(* or Raise(exception).  Attribute access on None raises AttributeError.    *)

\* NonNumericValueError.to_dict
NonNumericValueError_to_dict(self, s) ==
  IF s.kind = "none" THEN Raise("AttributeError")
  ELSE LET selected ==
             Loc(s, [k \in 1..Len(s.rows) |->
                       LET x == s.rows[k].val IN ~isnumeric(lstrip_minus(str(x)))])
           \* .dropna(): the selected rows whose value is null are dropped
           kept ==
             Loc(selected, [k \in 1..Len(selected.rows) |->
                              LET x == selected.rows[k].val IN x.t # "null"])
       IN Ok(form_response(self, kept, NoKwargs))

\* FieldRequiredError.to_dict: the column is ignored
FieldRequiredError_to_dict(self, s) == Ok(form_response(self, NoneS, NoKwargs))

\* NullNotAllowedError.to_dict
NullNotAllowedError_to_dict(self, s) ==
  IF s.kind = "none" THEN Raise("AttributeError")
  ELSE Ok(form_response(self, Loc(s, [k \in 1..Len(s.rows) |->
      LET x == s.rows[k].val IN x.t = "null"]), NoKwargs))

\* s < limit / s > limit on a Series: a null compares false, a number is
\* compared, and text against a number makes the comparison raise TypeError
Comparable(s) == \A k \in 1..Len(s.rows) : s.rows[k].val.t # "str"

\* MinValueError.to_dict with <= in place of <
MinValueError_to_dict_le(self, s) ==
  IF s.kind = "none" THEN Raise("AttributeError")
  ELSE IF ~Comparable(s) THEN Raise("TypeError")
  ELSE Ok(form_response(self,
            Loc(s, [k \in 1..Len(s.rows) |->
                LET x == s.rows[k].val IN x.t # "null" /\ x.n <= self.min_value]),
            [limit_value |-> self.min_value]))

\* MinValueError.to_dict
MinValueError_to_dict(self, s) ==
  IF s.kind = "none" THEN Raise("AttributeError")
  ELSE IF ~Comparable(s) THEN Raise("TypeError")
  ELSE Ok(form_response(self,
            Loc(s, [k \in 1..Len(s.rows) |->
                LET x == s.rows[k].val IN x.t # "null" /\ x.n < self.min_value]),
            [limit_value |-> self.min_value]))

\* MaxValueError.to_dict
MaxValueError_to_dict(self, s) ==
  IF s.kind = "none" THEN Raise("AttributeError")
  ELSE IF ~Comparable(s) THEN Raise("TypeError")
  ELSE Ok(form_response(self,
            Loc(s, [k \in 1..Len(s.rows) |->
                LET x == s.rows[k].val IN x.t # "null" /\ x.n > self.max_value]),
            [limit_value |-> self.max_value]))

\* s.str: the accessor is refused (AttributeError) when the values that are
\* not null are all numbers; an empty or all-null object column is accepted
StrAccessorOk(s) ==
  LET present == {k \in 1..Len(s.rows) : s.rows[k].val.t # "null"}
  IN present = {} \/ \E k \in present : s.rows[k].val.t = "str"

\* MinLengthError.to_dict: s.str.len() is NaN, hence never below or above
\* the limit, for a value that is not text
MinLengthError_to_dict(self, s) ==
  IF s.kind = "none" THEN Raise("AttributeError")
  ELSE IF ~StrAccessorOk(s) THEN Raise("AttributeError")
  ELSE Ok(form_response(self,
            Loc(s, [k \in 1..Len(s.rows) |->
                LET x == s.rows[k].val IN x.t = "str" /\ Len(x.s) < self.min_value]),
            [limit_value |-> self.min_value]))

\* MaxLengthError.to_dict
MaxLengthError_to_dict(self, s) ==
  IF s.kind = "none" THEN Raise("AttributeError")
  ELSE IF ~StrAccessorOk(s) THEN Raise("AttributeError")
  ELSE Ok(form_response(self,
            Loc(s, [k \in 1..Len(s.rows) |->
                LET x == s.rows[k].val IN x.t = "str" /\ Len(x.s) > self.max_value]),
            [limit_value |-> self.max_value]))

\* the position of a column name in the table
ColumnPos(name) == CHOOSE p \in 1..Len(ColumnNames) : ColumnNames[p] = name

\* the values of a row restricted to the listed fields
Key(row, fields) == [j \in 1..Len(fields) |-> row.cells[ColumnPos(fields[j])]]

\* DataFrame.duplicated(subset) with keep="last": all but the last occurrence
duplicated_keep_last(s, subset) ==
  [k \in 1..Len(s.rows) |->
     \E j \in (k + 1)..Len(s.rows) : Key(s.rows[j], subset) = Key(s.rows[k], subset)]

\* DataFrame.duplicated(subset), keep="first": one pass over the rows in
\* order with the set of keys already seen; a row is marked when its key was
\* seen before
duplicated(s, subset) ==
  LET RECURSIVE Scan(_, _)
      Scan(k, seen) ==
        IF k > Len(s.rows) THEN <<>>
        ELSE <<Key(s.rows[k], subset) \in seen>>
               \o Scan(k + 1, seen \cup {Key(s.rows[k], subset)})
  IN Scan(1, {})

\* NonUniqueTogetherError.to_dict
NonUniqueTogetherError_to_dict(self, s) ==
  IF s.kind = "none" THEN Raise("AttributeError")
  ELSE Ok(form_response(self,
            Loc(s, duplicated(s, self.unique_together_fields)),
            [unique_together_fields |-> self.unique_together_fields]))

\* The directives of a strptime format.  A format is a tuple of tokens: a
\* directive or a literal character.
Directives == {"%m", "%d"}

\* days of each month of the default year 1900
DaysIn(m) == IF m = 2 THEN 28 ELSE IF m \in {4, 6, 9, 11} THEN 30 ELSE 31

\* the number written by the first n characters of text, -1 if not digits
Number(text, n) ==
  IF n = 0 \/ n > Len(text) \/ \E k \in 1..n : text[k] \notin Digits THEN 0 - 1
  ELSE IF n = 1 THEN DigitVal(text[1]) ELSE 10 * DigitVal(text[1]) + DigitVal(text[2])

\* strptime: the [m, d] readings of text under format; the whole text must be
\* consumed.  %m reads one or two digits worth 1..12, %d one or two worth 1..31.
RECURSIVE strptime(_, _, _)
strptime(text, format, acc) ==
  IF format = <<>> THEN IF text = <<>> THEN {acc} ELSE {}
  ELSE LET tok == Head(format) IN
    IF tok \in Directives
    THEN UNION {
           LET v == Number(text, n) IN
             IF v >= 1 /\ v <= (IF tok = "%m" THEN 12 ELSE 31)
             THEN strptime(SubSeq(text, n + 1, Len(text)), Tail(format),
                           IF tok = "%m" THEN [acc EXCEPT !.m = v] ELSE [acc EXCEPT !.d = v])
             ELSE {}
           : n \in 1..2}
    ELSE IF text # <<>> /\ Head(text) = tok
         THEN strptime(Tail(text), Tail(format), acc)
         ELSE {}

\* pd.to_datetime(x, format, errors="coerce") is NaT: x is null, or its text
\* does not read as a date of the calendar under format
IsNaT(x, format) ==
  \/ x.t = "null"
  \/ ~\E r \in strptime(str(x), format, [m |-> 1, d |-> 1]) : r.d <= DaysIn(r.m)

\* IncorrectDateFormatError.to_dict (to_datetime(None) is None, and None.dt
\* raises AttributeError)
IncorrectDateFormatError_to_dict(self, s) ==
  IF s.kind = "none" THEN Raise("AttributeError")
  ELSE Ok(form_response(self,
            Loc(s, [k \in 1..Len(s.rows) |-> LET x == s.rows[k].val IN IsNaT(x, self.format)]),
            [format |-> self.format]))

\* ImageFormatNotSupportedError.to_dict (~None raises TypeError)
ImageFormatNotSupportedError_to_dict(self, s) ==
  IF s.kind = "none" THEN Raise("TypeError")
  ELSE Ok(form_response(self,
            Loc(s, [k \in 1..Len(s.rows) |->
                LET x == s.rows[k].val IN x.t = "bool" /\ x.n = 0]),
            [supported_extensions |-> self.supported_extensions]))

\* IdentifierNotFoundError.to_dict
IdentifierNotFoundError_to_dict(self, s) == Ok(form_response(self, s, NoKwargs))

\* BlankNotAllowed.to_dict
BlankNotAllowed_to_dict(self, s) ==
  IF s.kind = "none" THEN Raise("AttributeError")
  ELSE Ok(form_response(self, Loc(s, [k \in 1..Len(s.rows) |->
      LET x == s.rows[k].val IN x.t = "str" /\ x.s = <<>>]), NoKwargs))

\* Python's None as a returned value (the abstract Error.to_dict returns it:
\* its body is `pass`)
PyNone == [none |-> TRUE]

\* error.to_dict(s): the method of the class that defines it
to_dict(self, s) ==
  CASE self.cls.to_dict = "NonNumericValueError" -> NonNumericValueError_to_dict(self, s)
    [] self.cls.to_dict = "FieldRequiredError" -> FieldRequiredError_to_dict(self, s)
    [] self.cls.to_dict = "NullNotAllowedError" -> NullNotAllowedError_to_dict(self, s)
    [] self.cls.to_dict = "MinValueError" -> MinValueError_to_dict(self, s)
    [] self.cls.to_dict = "MaxValueError" -> MaxValueError_to_dict(self, s)
    [] self.cls.to_dict = "MinLengthError" -> MinLengthError_to_dict(self, s)
    [] self.cls.to_dict = "MaxLengthError" -> MaxLengthError_to_dict(self, s)
    [] self.cls.to_dict = "NonUniqueTogetherError" -> NonUniqueTogetherError_to_dict(self, s)
    [] self.cls.to_dict = "IncorrectDateFormatError" -> IncorrectDateFormatError_to_dict(self, s)
    [] self.cls.to_dict = "ImageFormatNotSupportedError" ->
         ImageFormatNotSupportedError_to_dict(self, s)
    [] self.cls.to_dict = "IdentifierNotFoundError" -> IdentifierNotFoundError_to_dict(self, s)
    [] self.cls.to_dict = "BlankNotAllowed" -> BlankNotAllowed_to_dict(self, s)
    [] self.cls.to_dict = "Error" -> Ok(PyNone)

--------------------------------------------------------------------------
(* FieldValidationErrorManager.  `errs` is the content of self.errors; the *)
(* result is the content afterwards and the exception raised, if any.      *)

\* log_error that skips a report already in the list
log_error_dedup(errs, error, s) ==
  LET r == to_dict(error, s) IN
    IF r.raised # "" THEN [errors |-> errs, raised |-> r.raised]
    ELSE IF \E k \in 1..Len(errs) : errs[k] = r.value THEN [errors |-> errs, raised |-> ""]
    ELSE [errors |-> Append(errs, r.value), raised |-> ""]

\* FieldValidationErrorManager.log_error
log_error(errs, error, s) ==
  LET r == to_dict(error, s) IN
    IF r.raised # "" THEN [errors |-> errs, raised |-> r.raised]
    ELSE [errors |-> Append(errs, r.value), raised |-> ""]

\* The validator classes the isinstance chain tests, in its order, and the
\* base class every validator derives from.
RecognizedValidators ==
  <<"MinValueValidator", "MaxValueValidator", "MinLengthValidator", "MaxLengthValidator",
    "UniqueTogetherValidator">>

\* the dispatch with the first two branches exchanged
dispatch_swapped(validator) ==
  IF validator.kind = "MinValueValidator"
  THEN new(MaxValueError, [max_value |-> validator.limit_value]).value
  ELSE IF validator.kind = "MaxValueValidator"
  THEN new(MinValueError, [min_value |-> validator.limit_value]).value
  ELSE IF validator.kind = "MinLengthValidator"
  THEN new(MinLengthError, [min_value |-> validator.limit_value]).value
  ELSE IF validator.kind = "MaxLengthValidator"
  THEN new(MaxLengthError, [max_value |-> validator.limit_value]).value
  ELSE IF validator.kind = "UniqueTogetherValidator"
  THEN new(NonUniqueTogetherError, [unique_together_fields |-> validator.limit_value]).value
  ELSE PyNone

\* the Error the dispatch constructs for a validator, PyNone when no branch
\* of the chain matches
dispatch(validator) ==
  IF validator.kind = "MinValueValidator"
  THEN new(MinValueError, [min_value |-> validator.limit_value]).value
  ELSE IF validator.kind = "MaxValueValidator"
  THEN new(MaxValueError, [max_value |-> validator.limit_value]).value
  ELSE IF validator.kind = "MinLengthValidator"
  THEN new(MinLengthError, [min_value |-> validator.limit_value]).value
  ELSE IF validator.kind = "MaxLengthValidator"
  THEN new(MaxLengthError, [max_value |-> validator.limit_value]).value
  ELSE IF validator.kind = "UniqueTogetherValidator"
  THEN new(NonUniqueTogetherError, [unique_together_fields |-> validator.limit_value]).value
  ELSE PyNone

\* log_validator_error without the final else: the initial result {} is kept
\* and appended
log_validator_error_silent(errs, validator, s) ==
  IF dispatch(validator) = PyNone THEN [errors |-> Append(errs, <<>>), raised |-> ""]
  ELSE LET r == to_dict(dispatch(validator), s) IN
    IF r.raised # "" THEN [errors |-> errs, raised |-> r.raised]
    ELSE [errors |-> Append(errs, r.value), raised |-> ""]

\* FieldValidationErrorManager.log_validator_error
log_validator_error(errs, validator, s) ==
  IF dispatch(validator) = PyNone THEN [errors |-> errs, raised |-> "NotImplementedError"]
  ELSE LET r == to_dict(dispatch(validator), s) IN
    IF r.raised # "" THEN [errors |-> errs, raised |-> r.raised]
    ELSE [errors |-> Append(errs, r.value), raised |-> ""]

--------------------------------------------------------------------------
(* Inputs.                                                                 *)

IndexLabels == {0, 7}
Limits == {0, 1}
FieldLists == {<<"a">>, <<"b">>, <<"a", "b">>, <<"b", "a">>}
Formats == {<<"%m", "-", "%d">>}
Extensions == <<"png", "jpg">>

\* every sequence of at most MaxRows rows over the given labels and values
RowsOver(rowset) == UNION {[1..n -> rowset] : n \in 0..MaxRows}

SeriesOver(values) == {Series(rows) : rows \in RowsOver([idx : IndexLabels, val : values])}

CellValues == {IntV(1), IntV(2)}

Tables ==
  {DataFrame(rows) :
     rows \in RowsOver([idx : IndexLabels, cells : [1..Len(ColumnNames) -> CellValues]])}

NumberValues == {IntV(0 - 1), IntV(0), IntV(1), NullV, StrV(<<"a", "b", "c">>)}
TextValues ==
  {StrV(<<"5">>), StrV(<<"a", "b", "c">>), StrV(<<"-", "3">>), StrV(<<"-", "-", "3">>),
   StrV(<<>>), StrV(<<"-">>), StrV(<<"3", "a">>), IntV(0 - 3), NullV}
LengthValues == {StrV(<<>>), StrV(<<"a">>), StrV(<<"a", "b", "c">>), IntV(1), NullV}
DateValues ==
  {StrV(<<"3", "-", "3">>), StrV(<<"0", "2", "-", "2", "8">>), StrV(<<"2", "-", "3", "0">>),
   StrV(<<"a">>), NullV}
FlagValues == {BoolV(TRUE), BoolV(FALSE)}

\* the columns or tables a variant is evaluated on, besides None
InputsFor(cls) ==
  CASE cls.to_dict \in {"MinValueError", "MaxValueError"} -> SeriesOver(NumberValues)
    [] cls.to_dict \in {"MinLengthError", "MaxLengthError"} -> SeriesOver(LengthValues)
    [] cls.to_dict = "NonUniqueTogetherError" -> Tables
    [] cls.to_dict = "IncorrectDateFormatError" -> SeriesOver(DateValues)
    [] cls.to_dict = "ImageFormatNotSupportedError" -> SeriesOver(FlagValues)
    [] cls.to_dict = "NonNumericValueError" -> SeriesOver(TextValues)
    [] OTHER -> SeriesOver(LengthValues)

\* one column or table per variant, for the accumulator
SampleFor(cls) ==
  LET two(x, y) == Series(<<[idx |-> 7, val |-> x], [idx |-> 0, val |-> y]>>) IN
  CASE cls.to_dict \in {"MinValueError", "MaxValueError"} -> two(IntV(0 - 1), IntV(1))
    [] cls.to_dict \in {"MinLengthError", "MaxLengthError"} -> two(StrV(<<>>), StrV(<<"a", "b">>))
    [] cls.to_dict = "NonUniqueTogetherError" ->
         DataFrame(<<[idx |-> 7, cells |-> <<IntV(1), IntV(2)>>],
                     [idx |-> 0, cells |-> <<IntV(1), IntV(2)>>]>>)
    [] cls.to_dict = "IncorrectDateFormatError" -> two(StrV(<<"3", "-", "3">>), StrV(<<"a">>))
    [] cls.to_dict = "ImageFormatNotSupportedError" -> two(BoolV(FALSE), BoolV(TRUE))
    [] cls.to_dict = "NonNumericValueError" -> two(StrV(<<"5">>), StrV(<<"a", "b", "c">>))
    [] OTHER -> two(StrV(<<>>), NullV)

\* the constructor calls cls(**fields) over the given parameter values
ConstructorsWith(limits, lists) ==
  [cls : {NonNumericValueError, FieldRequiredError, NullNotAllowedError,
          IdentifierNotFoundError, BlankNotAllowed, Error}, fields : {<<>>}]
  \cup [cls : {MinValueError, MinLengthError}, fields : [min_value : limits]]
  \cup [cls : {MaxValueError, MaxLengthError}, fields : [max_value : limits]]
  \cup [cls : {NonUniqueTogetherError}, fields : [unique_together_fields : lists]]
  \cup [cls : {IncorrectDateFormatError, IncorrectDateTimeFormatError},
        fields : [format : Formats]]
  \cup [cls : {ImageFormatNotSupportedError}, fields : [supported_extensions : {Extensions}]]

\* subclasses that, like IncorrectDateTimeFormatError, override CODE only
SubclassCodes ==
  {NoCode, Code(<<>>), Code(<<"x">>), Code(<<"X", "y">>), Code(<<"_", "1">>),
   Code(<<"X", "_", "1">>)}

Subclasses == [cls : {Class("IdentifierNotFoundError", c) : c \in SubclassCodes}, fields : {<<>>}]

Constructors == ConstructorsWith(Limits, FieldLists)
\* The accumulator handles every variant through to_dict alone, so its
\* state machine logs a sample of them.
SampleClasses == {MinValueError, NonUniqueTogetherError, FieldRequiredError, Error}
SampleConstructors ==
  {c \in ConstructorsWith({0}, {<<"a", "b">>}) : c.cls \in SampleClasses} \cup Subclasses

ValidatorsWith(limits, lists) ==
  [kind : {"MinValueValidator", "MaxValueValidator", "MinLengthValidator",
           "MaxLengthValidator", "BaseValidator"}, limit_value : limits]
  \cup [kind : {"UniqueTogetherValidator"}, limit_value : lists]

Validators == ValidatorsWith(Limits, FieldLists)
SampleValidators ==
  {v \in ValidatorsWith({0}, {<<"a", "b">>}) :
     v.kind \in {"MinValueValidator", "UniqueTogetherValidator", "BaseValidator"}}

\* the class whose inputs a validator is run on
InputClass(validator) ==
  CASE validator.kind \in {"MinValueValidator", "MaxValueValidator"} -> MinValueError
    [] validator.kind \in {"MinLengthValidator", "MaxLengthValidator"} -> MinLengthError
    [] validator.kind = "UniqueTogetherValidator" -> NonUniqueTogetherError
    [] OTHER -> BlankNotAllowed

--------------------------------------------------------------------------
(* The accumulator as a state machine: one validation pass over the fields *)
(* of a submission, one manager per field.                                 *)

ManagerIds == {"field_a", "field_b"}
ListIds == {"list1", "list2"}

managers == DOMAIN errors

\* manager.errors read back
Errors(m) == heap[errors[m]]

RECURSIVE Total(_, _)
Total(h, ids) ==
  IF ids = {} THEN 0
  ELSE LET l == CHOOSE x \in ids : TRUE IN Len(h[l]) + Total(h, ids \ {l})

Logged == Total(heap, ListIds)

\* a class-level list shared by every instance instead of default_factory
errors_shared(h, used) == [ref |-> "list1", heap |-> h]

\* field(init=False, default_factory=list): a new empty list per instance
errors_default(h, used) ==
  LET fresh == CHOOSE l \in ListIds : l \notin used
  IN [ref |-> fresh, heap |-> [h EXCEPT ![fresh] = <<>>]]

Init ==
  /\ errors = <<>>
  /\ heap = [l \in ListIds |-> <<>>]
  /\ instance = PyNone
  /\ call = [op |-> "init"]
  /\ outcome = Ok(PyNone)

\* FieldValidationErrorManager()
NewManager(m) ==
  /\ m \notin managers
  /\ LET a == errors_default(heap, {errors[x] : x \in managers}) IN
       /\ errors' = errors @@ (m :> a.ref)
       /\ heap' = a.heap
  /\ call' = [op |-> "new_manager", manager |-> m]
  /\ outcome' = Ok(PyNone)
  /\ UNCHANGED instance

\* cls(**fields), by the caller about to log an error
Construct(c) ==
  /\ Logged < MaxErrors
  /\ LET r == new(c.cls, c.fields) IN
       /\ instance' = IF r.raised = "" THEN r.value ELSE PyNone
       /\ outcome' = r
  /\ call' = [op |-> "construct", cls |-> c.cls]
  /\ UNCHANGED <<errors, heap>>

\* manager.log_error(instance, s); the Error object is then dropped
LogError(m, s) ==
  /\ m \in managers
  /\ instance # PyNone
  /\ Logged < MaxErrors
  /\ LET r == log_error(Errors(m), instance, s) IN
       /\ heap' = [heap EXCEPT ![errors[m]] = r.errors]
       /\ outcome' = IF r.raised = "" THEN Ok(PyNone) ELSE Raise(r.raised)
  /\ call' = [op |-> "log_error", manager |-> m, error |-> instance, s |-> s]
  /\ instance' = PyNone
  /\ UNCHANGED errors

\* manager.log_validator_error(validator, s)
LogValidatorError(m, validator, s) ==
  /\ m \in managers
  /\ Logged < MaxErrors
  /\ LET r == log_validator_error(Errors(m), validator, s) IN
       /\ heap' = [heap EXCEPT ![errors[m]] = r.errors]
       /\ outcome' = IF r.raised = "" THEN Ok(PyNone) ELSE Raise(r.raised)
  /\ call' = [op |-> "log_validator_error", manager |-> m, validator |-> validator, s |-> s]
  /\ UNCHANGED <<errors, instance>>

CreateStep == \E m \in ManagerIds : NewManager(m)
ConstructStep == Logged < MaxErrors /\ \E c \in SampleConstructors : Construct(c)
LogErrorStep ==
  \E m \in ManagerIds :
    \E s \in IF instance = PyNone THEN {} ELSE {NoneS, SampleFor(instance.cls)} : LogError(m, s)
LogValidatorErrorStep ==
  /\ Logged < MaxErrors
  /\ \E m \in ManagerIds : \E v \in SampleValidators :
       \E s \in {NoneS, SampleFor(InputClass(v))} : LogValidatorError(m, v, s)

Next == CreateStep \/ ConstructStep \/ LogErrorStep \/ LogValidatorErrorStep

Spec == Init /\ [][Next]_vars

--------------------------------------------------------------------------
(* The detection rules and the dispatch on their own: every call is made   *)
(* on inputs drawn from the bounded sets above; a dispatch is one pass     *)
(* with a new manager whose list is read back.  The calls are stateless,   *)
(* so every behaviour is one call made from the initial state.             *)

\* error.to_dict(s) for a constructed error
Evaluate(c, s) ==
  /\ call.op = "init"
  /\ new(c.cls, c.fields).raised = ""
  /\ call' = [op |-> "to_dict", error |-> new(c.cls, c.fields).value, s |-> s]
  /\ outcome' = to_dict(new(c.cls, c.fields).value, s)
  /\ UNCHANGED <<errors, heap, instance>>

\* FieldValidationErrorManager().log_validator_error(validator, s)
ValidateField(validator, s) ==
  /\ call.op = "init"
  /\ call' = [op |-> "log_validator_error", manager |-> "field_a",
              validator |-> validator, s |-> s]
  /\ outcome' = log_validator_error(<<>>, validator, s)
  /\ UNCHANGED <<errors, heap, instance>>

EvaluateStep ==
  /\ call.op = "init"
  /\ \E c \in Constructors :
       \/ Evaluate(c, NoneS)
       \/ \E s \in InputsFor(c.cls) : Evaluate(c, s)
ValidateFieldStep ==
  /\ call.op = "init"
  /\ \E v \in Validators :
       \/ ValidateField(v, NoneS)
       \/ \E s \in InputsFor(InputClass(v)) : ValidateField(v, s)

NextDetect == EvaluateStep \/ ValidateFieldStep

SpecDetect == Init /\ [][NextDetect]_vars

--------------------------------------------------------------------------
(* Vocabulary of the properties.                                           *)

LogOps == {"log_error", "log_validator_error"}

Recognized(kind) == \E i \in 1..Len(RecognizedValidators) : RecognizedValidators[i] = kind

\* the i-th smallest position of a set of positions
Nth(S, i) == CHOOSE k \in S : Cardinality({j \in S : j < k}) = i - 1

\* [row.idx for the rows at the positions S], in row order
Listed(rows, S) == [i \in 1..Cardinality(S) |-> rows[Nth(S, i)].idx]

\* the Error variant that corresponds to a validator, built with its limit_value
VariantFor(validator) ==
  CASE validator.kind = "MinValueValidator" ->
         [cls |-> MinValueError, min_value |-> validator.limit_value]
    [] validator.kind = "MaxValueValidator" ->
         [cls |-> MaxValueError, max_value |-> validator.limit_value]
    [] validator.kind = "MinLengthValidator" ->
         [cls |-> MinLengthError, min_value |-> validator.limit_value]
    [] validator.kind = "MaxLengthValidator" ->
         [cls |-> MaxLengthError, max_value |-> validator.limit_value]
    [] validator.kind = "UniqueTogetherValidator" ->
         [cls |-> NonUniqueTogetherError, unique_together_fields |-> validator.limit_value]

\* the report a successful log call produced
Produced(c) ==
  IF c.op = "log_error" THEN to_dict(c.error, c.s).value
  ELSE to_dict(VariantFor(c.validator), c.s).value

\* manager.errors read back after the step
ErrorsAfter(m) == heap'[errors'[m]]

\* a code that is set, not empty and free of lowercase letters
UppercaseCode(code) ==
  ~code.isNone /\ code.chars # <<>> /\ \A k \in 1..Len(code.chars) : code.chars[k] \notin LowerChars

--------------------------------------------------------------------------
(* C1: a manager starts with an empty list; every successful log_error or  *)
(* log_validator_error call on it appends exactly the report the call      *)
(* produced at the end of its list, keeping all earlier reports in place,  *)
(* also when an equal report is already there; a failed call leaves the    *)
(* list as it was.  Hence after n successful calls the list holds the n    *)
(* reports in call order.                                                   *)
C1_AppendInCallOrder ==
  [][\A m \in ManagerIds :
       /\ (m \in managers' /\ m \notin managers) => ErrorsAfter(m) = <<>>
       /\ (m \in managers /\ call'.op \in LogOps /\ call'.manager = m) =>
            IF outcome'.raised = ""
            THEN ErrorsAfter(m) = Append(Errors(m), Produced(call'))
            ELSE ErrorsAfter(m) = Errors(m)]_vars

\* the same report was recorded twice and appears twice
C1_Witness ==
  /\ call.op \in LogOps
  /\ outcome.raised = ""
  /\ Len(Errors(call.manager)) = 2
  /\ Errors(call.manager)[1] = Errors(call.manager)[2]

(* C3: log_validator_error with a validator of none of the five recognized *)
(* kinds raises NotImplementedError and appends nothing: the list of the    *)
(* manager is the same after the call as before it.                         *)
C3_UnsupportedValidatorRaises ==
  [][(call'.op = "log_validator_error" /\ ~Recognized(call'.validator.kind)) =>
       /\ outcome'.raised = "NotImplementedError"
       /\ ErrorsAfter(call'.manager) = Errors(call'.manager)
       /\ heap' = heap]_vars

C3_Witness ==
  /\ call.op = "log_validator_error"
  /\ call.validator.kind = "BaseValidator"
  /\ outcome.raised = "NotImplementedError"
  /\ Len(Errors(call.manager)) = 1

(* C9: constructing a class whose CODE is unset or not uppercase raises at  *)
(* construction and leaves no instance; the abstract base Error cannot be  *)
(* instantiated; every instance and every logged report carries a          *)
(* non-empty code without lowercase letters.                                *)
C9_CodeCheckedAtConstruction ==
  /\ instance # PyNone => UppercaseCode(instance.cls.CODE)
  /\ (call.op = "construct" /\ ~UppercaseCode(call.cls.CODE)) =>
       outcome.raised = "AssertionError" /\ instance = PyNone
  /\ (call.op = "construct" /\ call.cls = Error) => outcome.raised = "AssertionError"
  /\ \A m \in managers : \A k \in 1..Len(Errors(m)) : UppercaseCode(Code(Errors(m)[k].reason))

C9_Witness ==
  /\ call.op = "construct"
  /\ call.cls.CODE = Code(<<"X", "y">>)
  /\ outcome.raised = "AssertionError"
  /\ instance = PyNone

(* C10: distinct managers never share a list: a new manager starts with an  *)
(* empty list of its own, and a log call on one manager leaves the list of  *)
(* every other manager unchanged.                                           *)
C10_NoSharedStorage ==
  [][/\ \A m1, m2 \in managers' : m1 # m2 => errors'[m1] # errors'[m2]
     /\ \A m \in managers :
          (call'.op = "new_manager" \/ (call'.op \in LogOps /\ call'.manager # m)) =>
            ErrorsAfter(m) = Errors(m)
     /\ \A m \in managers' \ managers : ErrorsAfter(m) = <<>>]_vars

C10_Witness ==
  /\ managers = ManagerIds
  /\ call.op \in LogOps
  /\ outcome.raised = ""
  /\ Len(Errors(call.manager)) = 2
  /\ \E m \in managers : m # call.manager /\ Len(Errors(m)) = 0

--------------------------------------------------------------------------
(* Properties of the detection rules and of the dispatch (SpecDetect).     *)

\* the call made was error.to_dict(s) with s a column or a table
Evaluated(name) == call.op = "to_dict" /\ call.error.cls.to_dict = name /\ call.s.kind # "none"

Positions == 1..Len(call.s.rows)

(* C2: for each of the five recognized validator kinds and every column or *)
(* table s, log_validator_error(validator, s) on a new manager ends as      *)
(* log_error(variant, s) does for the corresponding variant built with the  *)
(* validator's limit_value: same list, same exception if any.               *)
C2_DispatchMatchesDirectCall ==
  (call.op = "log_validator_error" /\ Recognized(call.validator.kind)) =>
    outcome = log_error(<<>>, VariantFor(call.validator), call.s)

C2_Witness ==
  /\ call.op = "log_validator_error"
  /\ call.validator.kind = "MaxLengthValidator"
  /\ outcome.raised = ""
  /\ Len(outcome.errors) = 1
  /\ outcome.errors[1].reason = MAX_LENGTH_VALUE
  /\ outcome.errors[1].indexes = <<7, 0>>

(* C4: on a column of numbers, MinValueError(min_value=m).to_dict reports   *)
(* reason MIN_VALUE, limit_value m and exactly the index labels of the rows *)
(* with value < m, in row order (a value equal to m is not reported);       *)
(* MaxValueError(max_value=m) likewise the rows with value > m under        *)
(* MAX_VALUE.                                                               *)
C4_MinMaxIndexes ==
  LET rows == call.s.rows
      numbers == \A k \in Positions : rows[k].val.t = "int"
  IN /\ (Evaluated("MinValueError") /\ numbers) =>
          outcome = Ok([reason |-> MIN_VALUE,
                        indexes |-> Listed(rows, {k \in Positions :
                                                    rows[k].val.n < call.error.min_value}),
                        limit_value |-> call.error.min_value])
     /\ (Evaluated("MaxValueError") /\ numbers) =>
          outcome = Ok([reason |-> MAX_VALUE,
                        indexes |-> Listed(rows, {k \in Positions :
                                                    rows[k].val.n > call.error.max_value}),
                        limit_value |-> call.error.max_value])

\* labels out of numeric order, one value below the limit, one equal to it
C4_Witness ==
  /\ Evaluated("MinValueError")
  /\ call.error.min_value = 1
  /\ call.s.rows = <<[idx |-> 7, val |-> IntV(0)], [idx |-> 7, val |-> IntV(1)],
                     [idx |-> 0, val |-> IntV(0 - 1)]>>
  /\ outcome.raised = ""
  /\ outcome.value.indexes = <<7, 0>>

(* C5 as claimed: to_dict(None) of every variant returns a report with the  *)
(* variant's code and no indexes.                                           *)
C5_NoneColumnGivesEmptyIndexes ==
  (call.op = "to_dict" /\ call.s = NoneS) =>
    /\ outcome.raised = ""
    /\ outcome.value.reason = call.error.cls.CODE.chars
    /\ outcome.value.indexes = <<>>

\* text with one leading minus sign removed
StripOneMinus(text) == IF text # <<>> /\ Head(text) = "-" THEN Tail(text) ELSE text

AllDigits(text) == text # <<>> /\ \A k \in 1..Len(text) : text[k] \in Digits

(* C6 as claimed: NonNumericValueError reports row i iff the text of c[i],  *)
(* one leading minus sign removed, is not all digits; "--3" and a null are  *)
(* reported.                                                                *)
C6_NonNumericIndexes ==
  Evaluated("NonNumericValueError") =>
    outcome = Ok([reason |-> NON_NUMERIC_VALUE,
                  indexes |-> Listed(call.s.rows,
                                {k \in Positions :
                                   ~AllDigits(StripOneMinus(str(call.s.rows[k].val)))})])

(* C7: NonUniqueTogetherError(unique_together_fields=F).to_dict(t) reports  *)
(* exactly the rows of t that agree on every field of F with some earlier   *)
(* row, in table order, with unique_together_fields = F.                    *)
C7_DuplicatesOfEarlierRows ==
  Evaluated("NonUniqueTogetherError") =>
    LET rows == call.s.rows
        F == call.error.unique_together_fields
        same(j, k) == \A i \in 1..Len(F) :
                        rows[j].cells[ColumnPos(F[i])] = rows[k].cells[ColumnPos(F[i])]
    IN outcome = Ok([reason |-> NON_UNIQUE_TOGETHER,
                     indexes |-> Listed(rows, {k \in Positions : \E j \in 1..(k - 1) : same(j, k)}),
                     unique_together_fields |-> F])

\* three rows equal on field a: the first is kept, both later ones reported
C7_Witness ==
  /\ Evaluated("NonUniqueTogetherError")
  /\ call.error.unique_together_fields = <<"a">>
  /\ call.s.rows = <<[idx |-> 7, cells |-> <<IntV(1), IntV(1)>>],
                     [idx |-> 0, cells |-> <<IntV(1), IntV(2)>>],
                     [idx |-> 7, cells |-> <<IntV(1), IntV(1)>>]>>
  /\ outcome.raised = ""
  /\ outcome.value.indexes = <<0, 7>>

(* C8 as claimed: MinValueError/MaxValueError.to_dict never raises on a     *)
(* column with a value that cannot be compared to the limit; that row is    *)
(* left out and the other rows are classified as usual.                     *)
C8_MalformedValueSkipped ==
  LET rows == call.s.rows IN
  /\ Evaluated("MinValueError") =>
       /\ outcome.raised = ""
       /\ outcome.value.indexes =
            Listed(rows, {k \in Positions :
                            rows[k].val.t = "int" /\ rows[k].val.n < call.error.min_value})
  /\ Evaluated("MaxValueError") =>
       /\ outcome.raised = ""
       /\ outcome.value.indexes =
            Listed(rows, {k \in Positions :
                            rows[k].val.t = "int" /\ rows[k].val.n > call.error.max_value})

====
